---- MODULE Spec2Model ----
(***************************************************************************)
(* Model of the AdSimulator component (src/components/AdSimulator.tsx):    *)
(* the input state, the single-period calculation `calculate` and the      *)
(* compounding projection `calculateCompoundEffect`, run by the effect     *)
(* that follows every change of `inputs`.                                  *)
(*                                                                         *)
(* Numbers.  A JavaScript number is modelled as an exact fraction <<n, d>> *)
(* in lowest terms with d > 0, plus the three non-finite values a division *)
(* can produce: <<1, 0>> (Infinity), <<-1, 0>> (-Infinity) and <<0, 0>>    *)
(* (NaN).  Arithmetic is exact: the rounding of IEEE-754 doubles and the   *)
(* sign of zero are not modelled.                                          *)
(***************************************************************************)
EXTENDS Integers, Sequences, FiniteSets, TLC

\* The projection loop is followed for at most MaxMonths months after the
\* sentinel row (a longer horizon is cut there), which keeps every numerator
\* and denominator within TLC's integers.
MaxMonths == 3

\* Number of input edits followed from the initial state.
MaxEdits == 3

----------------------------------------------------------------------------
(* Exact arithmetic on JavaScript numbers *)

Abs(n) == IF n < 0 THEN -n ELSE n

Sgn(n) == IF n < 0 THEN -1 ELSE IF n > 0 THEN 1 ELSE 0

RECURSIVE Gcd(_, _)
Gcd(a, b) == IF b = 0 THEN a ELSE Gcd(b, a % b)

Norm(n, d) ==
  IF d = 0 THEN <<Sgn(n), 0>>
  ELSE LET g == Gcd(Abs(n), Abs(d))
           s == IF d < 0 THEN -1 ELSE 1
       IN  <<s * (n \div g), s * (d \div g)>>

R(n) == <<n, 1>>

Zero == R(0)

NaN == <<0, 0>>

IsNaN(a) == a = NaN

IsFinite(a) == a[2] # 0

Neg(a) == <<-a[1], a[2]>>

Mul(a, b) == Norm(a[1] * b[1], a[2] * b[2])

Recip(b) == IF b[1] < 0 THEN <<-b[2], -b[1]>> ELSE <<b[2], b[1]>>

Div(a, b) == Mul(a, Recip(b))

Add(a, b) ==
  IF a[2] = 0 \/ b[2] = 0
  THEN IF a[2] = 0 /\ b[2] = 0 THEN (IF a = b THEN a ELSE NaN)
       ELSE IF a[2] = 0 THEN a ELSE b
  ELSE Norm(a[1] * b[2] + b[1] * a[2], a[2] * b[2])

Sub(a, b) == Add(a, Neg(b))

Gt(a, b) ==
  IF IsNaN(a) \/ IsNaN(b) THEN FALSE
  ELSE IF a[2] = 0 /\ b[2] = 0 THEN a[1] > b[1]
  ELSE a[1] * b[2] > b[1] * a[2]

Le(a, b) == ~IsNaN(a) /\ ~IsNaN(b) /\ ~Gt(a, b)

Hundred == R(100)

----------------------------------------------------------------------------
(* parseFloat(value) || 0 of handleInputChange.  A text is a sequence of    *)
(* one-character strings.  parseFloat reads an optional sign, digits and an *)
(* optional fraction, and ignores whatever follows; without a digit the    *)
(* result is NaN.  Exponents and the literal "Infinity" are not modelled.  *)

DigitChars == {"0", "1", "2", "3", "4", "5", "6", "7", "8", "9"}

DigitVal(c) ==
  CASE c = "0" -> 0 [] c = "1" -> 1 [] c = "2" -> 2 [] c = "3" -> 3
    [] c = "4" -> 4 [] c = "5" -> 5 [] c = "6" -> 6 [] c = "7" -> 7
    [] c = "8" -> 8 [] c = "9" -> 9

RECURSIVE ScanDigits(_, _)
ScanDigits(s, i) ==
  IF i <= Len(s) /\ s[i] \in DigitChars THEN ScanDigits(s, i + 1) ELSE i

RECURSIVE DigitsValue(_, _, _)
DigitsValue(s, i, j) ==
  IF j <= i THEN 0 ELSE DigitsValue(s, i, j - 1) * 10 + DigitVal(s[j - 1])

RECURSIVE Pow10(_)
Pow10(k) == IF k <= 0 THEN 1 ELSE 10 * Pow10(k - 1)

parseFloat(s) ==
  LET signed  == Len(s) >= 1 /\ s[1] \in {"-", "+"}
      start   == IF signed THEN 2 ELSE 1
      intEnd  == ScanDigits(s, start)
      hasDot  == intEnd <= Len(s) /\ s[intEnd] = "."
      fracEnd == IF hasDot THEN ScanDigits(s, intEnd + 1) ELSE intEnd
      nInt    == intEnd - start
      nFrac   == IF hasDot THEN fracEnd - (intEnd + 1) ELSE 0
      mag     == Norm(DigitsValue(s, start, intEnd) * Pow10(nFrac)
                        + (IF hasDot THEN DigitsValue(s, intEnd + 1, fracEnd) ELSE 0),
                      Pow10(nFrac))
  IN  IF nInt + nFrac = 0 THEN NaN
      ELSE IF signed /\ s[1] = "-" THEN Neg(mag) ELSE mag

\* x || 0: NaN and 0 are falsy.
OrZero(x) == IF IsNaN(x) \/ x = Zero THEN Zero ELSE x

----------------------------------------------------------------------------
(* State *)

VARIABLES
  inputs,            \* useState<InputValues>
  results,           \* useState<ResultValues>
  compoundData,      \* useState<CompoundDataItem[]>
  effectPending,     \* inputs changed (or first render): the effect is due
  pc,                \* "idle", or "loop" inside calculateCompoundEffect
  queuedResults,     \* argument of setResults, applied with the next render
  monthlyProfit,     \* argument of calculateCompoundEffect
  data,              \* locals of calculateCompoundEffect
  cumulativeAdCost,
  cumulativeRevenue,
  cumulativeProfit,
  currentAdCost,
  month,
  numEdits           \* edits made so far (bounded by MaxEdits)

vars == <<inputs, results, compoundData, effectPending, pc, queuedResults,
          monthlyProfit, data, cumulativeAdCost, cumulativeRevenue,
          cumulativeProfit, currentAdCost, month, numEdits>>

locals == <<monthlyProfit, data, cumulativeAdCost, cumulativeRevenue,
            cumulativeProfit, currentAdCost, month>>

NumericFields == {"adCost", "productPrice", "roas", "conversionRate",
                  "profitMargin", "affiliateCommission", "seatCpa",
                  "appointments", "operationDays", "months"}

DefaultInputs ==
  [adCost              |-> R(500000),
   productPrice        |-> R(600000),
   roas                |-> R(300),
   conversionRate      |-> R(20),
   profitMargin        |-> R(60),
   affiliateCommission |-> R(20),
   seatCpa             |-> R(60000),
   appointments        |-> R(8),
   operationDays       |-> R(30),
   months              |-> R(12),
   firstMonthFree      |-> TRUE]

InitialResults ==
  [revenue |-> Zero, profit |-> Zero, profitBeforeAdCost |-> Zero,
   numberOfSales |-> Zero, cpa |-> Zero, roasActual |-> Zero,
   seatCount |-> Zero, dailyCost |-> Zero, affiliateAmount |-> Zero,
   profitAmount |-> Zero]

ResultFields == DOMAIN InitialResults

----------------------------------------------------------------------------
(* calculate: the single-period result *)

Revenue(adCost, roas) == Div(Mul(adCost, roas), Hundred)

\* Mutant of NumberOfSales: the guard lets a zero price through.
NumberOfSales_GuardGe(revenue, productPrice) ==
  IF ~Gt(Zero, productPrice) THEN Div(revenue, productPrice) ELSE Zero

NumberOfSales(revenue, productPrice) ==
  IF Gt(productPrice, Zero) THEN Div(revenue, productPrice) ELSE Zero

Cpa(adCost, numberOfSales) ==
  IF Gt(numberOfSales, Zero) THEN Div(adCost, numberOfSales) ELSE Zero

ProfitAmount(revenue, profitMargin) == Div(Mul(revenue, profitMargin), Hundred)

AffiliateAmount(profitAmount, affiliateCommission) ==
  Div(Mul(profitAmount, affiliateCommission), Hundred)

\* Mutant of Profit: the single-period profit deducts the ad cost even when
\* the first month is free.
Profit_AlwaysDeduct(firstMonthFree, profitBeforeAdCost, adCost) ==
  Sub(profitBeforeAdCost, adCost)

Profit(firstMonthFree, profitBeforeAdCost, adCost) ==
  IF firstMonthFree THEN profitBeforeAdCost ELSE Sub(profitBeforeAdCost, adCost)

RoasActual(revenue, adCost) ==
  IF Gt(adCost, Zero) THEN Mul(Div(revenue, adCost), Hundred) ELSE Zero

SeatCount(adCost, seatCpa) ==
  IF Gt(seatCpa, Zero) THEN Div(adCost, seatCpa) ELSE Zero

DailyCost(adCost, operationDays) ==
  IF Gt(operationDays, Zero) THEN Div(adCost, operationDays) ELSE Zero

calculate(inp) ==
  LET revenue            == Revenue(inp.adCost, inp.roas)
      numberOfSales      == NumberOfSales(revenue, inp.productPrice)
      cpa                == Cpa(inp.adCost, numberOfSales)
      profitAmount       == ProfitAmount(revenue, inp.profitMargin)
      affiliateAmount    == AffiliateAmount(profitAmount, inp.affiliateCommission)
      profitBeforeAdCost == Sub(profitAmount, affiliateAmount)
      profit             == Profit(inp.firstMonthFree, profitBeforeAdCost, inp.adCost)
  IN  [revenue            |-> revenue,
       profit             |-> profit,
       profitBeforeAdCost |-> profitBeforeAdCost,
       numberOfSales      |-> numberOfSales,
       cpa                |-> cpa,
       roasActual         |-> RoasActual(revenue, inp.adCost),
       seatCount          |-> SeatCount(inp.adCost, inp.seatCpa),
       dailyCost          |-> DailyCost(inp.adCost, inp.operationDays),
       affiliateAmount    |-> affiliateAmount,
       profitAmount       |-> profitAmount]

----------------------------------------------------------------------------
(* calculateCompoundEffect: the pieces of one loop iteration *)

\* Mutant of LoopCond: the loop stops one month early.
LoopCond_Lt(m, months) == Gt(months, R(m))

LoopCond(m, months) == Le(R(m), months)

\* Mutant of SentinelRow: the sentinel shows no ad spend.
SentinelRow_NoAdCost(m, adCost, cumAdCost) ==
  [month |-> m, adCost |-> Zero, revenue |-> Zero, profit |-> Zero,
   cumulativeAdCost |-> cumAdCost, cumulativeRevenue |-> Zero,
   cumulativeProfit |-> Zero]

SentinelRow(m, adCost, cumAdCost) ==
  [month |-> m, adCost |-> adCost, revenue |-> Zero, profit |-> Zero,
   cumulativeAdCost |-> cumAdCost, cumulativeRevenue |-> Zero,
   cumulativeProfit |-> Zero]

MonthlyRevenue(adCost, roas) == Div(Mul(adCost, roas), Hundred)

MonthlyProfitAmount(monthlyRevenue, profitMargin) ==
  Mul(monthlyRevenue, Div(profitMargin, Hundred))

MonthlyAffiliateAmount(profitAmount, affiliateCommission) ==
  Mul(profitAmount, Div(affiliateCommission, Hundred))

\* Mutant of MonthlyProfitBeforeAdCost: the commission is not deducted.
MonthlyProfitBeforeAdCost_NoCommission(adCost, inp) ==
  MonthlyProfitAmount(MonthlyRevenue(adCost, inp.roas), inp.profitMargin)

MonthlyProfitBeforeAdCost(adCost, inp) ==
  LET profitAmount == MonthlyProfitAmount(MonthlyRevenue(adCost, inp.roas),
                                          inp.profitMargin)
  IN  Sub(profitAmount, MonthlyAffiliateAmount(profitAmount, inp.affiliateCommission))

\* Mutant of NetProfit: the waiver is applied in every month.
NetProfit_EveryMonth(m, firstMonthFree, monthlyProfitBeforeAdCost, adCost) ==
  IF firstMonthFree
  THEN monthlyProfitBeforeAdCost
  ELSE Sub(monthlyProfitBeforeAdCost, adCost)

NetProfit(m, firstMonthFree, monthlyProfitBeforeAdCost, adCost) ==
  IF m = 1 /\ firstMonthFree
  THEN monthlyProfitBeforeAdCost
  ELSE Sub(monthlyProfitBeforeAdCost, adCost)

\* Mutant of AccrueAdCost: month 1 accrues its ad cost like any other month.
AccrueAdCost_Always(m, firstMonthFree, cumAdCost, adCost) == Add(cumAdCost, adCost)

\* Mutant of AccrueAdCost: with the waiver on, month 2 is skipped as well.
AccrueAdCost_SkipTwo(m, firstMonthFree, cumAdCost, adCost) ==
  IF ~(m <= 2 /\ firstMonthFree) THEN Add(cumAdCost, adCost) ELSE cumAdCost

AccrueAdCost(m, firstMonthFree, cumAdCost, adCost) ==
  IF ~(m = 1 /\ firstMonthFree) THEN Add(cumAdCost, adCost) ELSE cumAdCost

\* Mutant of NextAdCost: a zero profit is reinvested too.
NextAdCost_Ge(monthlyProfitBeforeAdCost, baseline) ==
  IF ~Gt(Zero, monthlyProfitBeforeAdCost) THEN monthlyProfitBeforeAdCost ELSE baseline

\* Mutant of NextAdCost: the profit is carried over whatever its sign.
NextAdCost_Carry(monthlyProfitBeforeAdCost, baseline) == monthlyProfitBeforeAdCost

NextAdCost(monthlyProfitBeforeAdCost, baseline) ==
  IF Gt(monthlyProfitBeforeAdCost, Zero) THEN monthlyProfitBeforeAdCost ELSE baseline

\* Mutant of setCompoundData: the new rows are added to the previous ones.
setCompoundData_Append(prev, value) == prev \o value

\* A useState setter called with a value: the value replaces the state.
setCompoundData(prev, value) == value

---------------------------------------------------------------------------------------------------------------------------------------------------
(* calculateCompoundEffect as a whole: the rows one call builds for the      *)
(* snapshot inp, from fresh accumulators (followed up to month MaxMonths).   *)

RECURSIVE Iterate(_, _, _, _)
Iterate(inp, m, acc, rows) ==
  IF ~(LoopCond(m, inp.months) /\ m <= MaxMonths) THEN rows
  ELSE IF m = 0
  THEN Iterate(inp, m + 1, acc,
               Append(rows, SentinelRow(m, acc.currentAdCost, acc.cumulativeAdCost)))
  ELSE LET monthlyRevenue == MonthlyRevenue(acc.currentAdCost, inp.roas)
           monthlyProfitBeforeAdCost ==
             MonthlyProfitBeforeAdCost(acc.currentAdCost, inp)
           netProfit == NetProfit(m, inp.firstMonthFree,
                                  monthlyProfitBeforeAdCost, acc.currentAdCost)
           cumAdCost == AccrueAdCost(m, inp.firstMonthFree,
                                     acc.cumulativeAdCost, acc.currentAdCost)
           cumRevenue == Add(acc.cumulativeRevenue, monthlyRevenue)
           cumProfit == Add(acc.cumulativeProfit, netProfit)
       IN  Iterate(inp, m + 1,
                   [currentAdCost |-> NextAdCost(monthlyProfitBeforeAdCost, inp.adCost),
                    cumulativeAdCost |-> cumAdCost,
                    cumulativeRevenue |-> cumRevenue,
                    cumulativeProfit |-> cumProfit],
                   Append(rows,
                     [month |-> m,
                      adCost |-> acc.currentAdCost,
                      revenue |-> monthlyRevenue,
                      profit |-> monthlyProfitBeforeAdCost,
                      cumulativeAdCost |-> cumAdCost,
                      cumulativeRevenue |-> cumRevenue,
                      cumulativeProfit |-> cumProfit]))

calculateCompoundEffect(inp) ==
  Iterate(inp, 0,
          [currentAdCost |-> inp.adCost, cumulativeAdCost |-> Zero,
           cumulativeRevenue |-> Zero, cumulativeProfit |-> Zero],
          <<>>)

----------------------------------------------------------------------------
(* Input edits *)

\* The texts typed into each numeric field (e.target.value), as sequences of
\* characters; <<>> is the emptied field.
FieldTexts(name) ==
  CASE name = "adCost" ->
         {<<"5", "0", "0", "0", "0", "0">>, <<"0">>, <<"-", "1", "0", "0">>}
    [] name = "productPrice" ->
         {<<"6", "0", "0", "0", "0", "0">>, <<>>, <<"-", "1">>}
    [] name = "roas" ->
         {<<"3", "0", "0">>, <<"0">>, <<"-", "1", "0", "0">>}
    [] name = "conversionRate" ->
         {<<"2", "0">>, <<>>}
    [] name = "profitMargin" ->
         {<<"6", "0">>, <<"-", "5", "0">>}
    [] name = "affiliateCommission" ->
         {<<"2", "0">>, <<"1", "5", "0">>}
    [] name = "seatCpa" ->
         {<<"6", "0", "0", "0", "0">>, <<"0">>, <<"0", ".", "5">>}
    [] name = "appointments" ->
         {<<"8">>, <<"-">>}
    [] name = "operationDays" ->
         {<<"3", "0">>, <<"0">>}
    [] name = "months" ->
         {<<"1", "2">>, <<"0">>, <<"1">>, <<"2">>, <<"3">>, <<"-", "1">>}

\* The values handleInputChange can store in a field.
FieldValues(name) == {OrZero(parseFloat(t)) : t \in FieldTexts(name)}

----------------------------------------------------------------------------
(* Actions *)

Init ==
  /\ inputs = DefaultInputs
  /\ results = InitialResults
  /\ compoundData = <<>>
  /\ effectPending = TRUE
  /\ pc = "idle"
  /\ queuedResults = InitialResults
  /\ monthlyProfit = Zero
  /\ data = <<>>
  /\ cumulativeAdCost = Zero
  /\ cumulativeRevenue = Zero
  /\ cumulativeProfit = Zero
  /\ currentAdCost = Zero
  /\ month = 0
  /\ numEdits = 0

\* An edit is handled once the effect of the previous render has run: React
\* flushes a render's effects before it handles the next event.
CanEdit == pc = "idle" /\ ~effectPending /\ numEdits < MaxEdits

\* onChange of a numeric field: setInputs({...inputs, [name]: parseFloat(value) || 0}).
handleInputChange(name, value) ==
  /\ CanEdit
  /\ inputs' = [inputs EXCEPT ![name] = OrZero(parseFloat(value))]
  /\ effectPending' = TRUE
  /\ numEdits' = numEdits + 1
  /\ UNCHANGED <<results, compoundData, pc, queuedResults, locals>>

\* onChange of the checkbox: setInputs({...inputs, firstMonthFree: e.target.checked}).
toggleFirstMonthFree ==
  /\ CanEdit
  /\ inputs' = [inputs EXCEPT !.firstMonthFree = ~inputs.firstMonthFree]
  /\ effectPending' = TRUE
  /\ numEdits' = numEdits + 1
  /\ UNCHANGED <<results, compoundData, pc, queuedResults, locals>>

\* The effect after a render with new inputs: calculate() queues the results
\* and enters calculateCompoundEffect(profit) with fresh locals.
Calculate ==
  /\ pc = "idle"
  /\ effectPending
  /\ queuedResults' = calculate(inputs)
  /\ monthlyProfit' = calculate(inputs).profit
  /\ data' = <<>>
  /\ cumulativeAdCost' = Zero
  /\ cumulativeRevenue' = Zero
  /\ cumulativeProfit' = Zero
  /\ currentAdCost' = inputs.adCost
  /\ month' = 0
  /\ pc' = "loop"
  /\ effectPending' = FALSE
  /\ UNCHANGED <<inputs, results, compoundData, numEdits>>

\* The loop runs while month <= inputs.months; the model follows it up to
\* month MaxMonths.
Running == LoopCond(month, inputs.months) /\ month <= MaxMonths

\* Iteration month = 0: the sentinel row, then `continue`.
LoopSentinel ==
  /\ pc = "loop"
  /\ Running
  /\ month = 0
  /\ data' = Append(data, SentinelRow(month, currentAdCost, cumulativeAdCost))
  /\ month' = month + 1
  /\ UNCHANGED <<inputs, results, compoundData, effectPending, pc, queuedResults,
                 monthlyProfit, cumulativeAdCost, cumulativeRevenue,
                 cumulativeProfit, currentAdCost, numEdits>>

\* Iteration month >= 1.
LoopMonth ==
  /\ pc = "loop"
  /\ Running
  /\ month # 0
  /\ LET monthlyRevenue == MonthlyRevenue(currentAdCost, inputs.roas)
         monthlyProfitBeforeAdCost == MonthlyProfitBeforeAdCost(currentAdCost, inputs)
         netProfit == NetProfit(month, inputs.firstMonthFree,
                                monthlyProfitBeforeAdCost, currentAdCost)
     IN  /\ cumulativeAdCost' = AccrueAdCost(month, inputs.firstMonthFree,
                                             cumulativeAdCost, currentAdCost)
         /\ cumulativeRevenue' = Add(cumulativeRevenue, monthlyRevenue)
         /\ cumulativeProfit' = Add(cumulativeProfit, netProfit)
         /\ data' = Append(data,
                      [month |-> month,
                       adCost |-> currentAdCost,
                       revenue |-> monthlyRevenue,
                       profit |-> monthlyProfitBeforeAdCost,
                       cumulativeAdCost |-> cumulativeAdCost',
                       cumulativeRevenue |-> cumulativeRevenue',
                       cumulativeProfit |-> cumulativeProfit'])
         /\ currentAdCost' = NextAdCost(monthlyProfitBeforeAdCost, inputs.adCost)
  /\ month' = month + 1
  /\ UNCHANGED <<inputs, results, compoundData, effectPending, pc, queuedResults,
                 monthlyProfit, numEdits>>

\* The loop ends: setCompoundData(data); the render that follows applies it
\* together with the queued setResults, and the call's locals are gone.
LoopExit ==
  /\ pc = "loop"
  /\ ~Running
  /\ compoundData' = setCompoundData(compoundData, data)
  /\ results' = queuedResults
  /\ pc' = "idle"
  /\ monthlyProfit' = Zero
  /\ data' = <<>>
  /\ cumulativeAdCost' = Zero
  /\ cumulativeRevenue' = Zero
  /\ cumulativeProfit' = Zero
  /\ currentAdCost' = Zero
  /\ month' = 0
  /\ UNCHANGED <<inputs, effectPending, queuedResults, numEdits>>

Edit ==
  \/ \E name \in NumericFields : \E value \in FieldTexts(name) :
       handleInputChange(name, value)
  \/ toggleFirstMonthFree

Effect == Calculate \/ LoopSentinel \/ LoopMonth \/ LoopExit

Next == Edit \/ Effect

\* The component from its first render, under a bounded number of edits.
Spec == Init /\ [][Next]_vars

\* The two calculations applied to every input snapshot the fields can hold
\* (the two fields no calculation reads keep their defaults).
InitInputs ==
  /\ \E a \in FieldValues("adCost"), p \in FieldValues("productPrice"),
        r \in FieldValues("roas"), pm \in FieldValues("profitMargin"),
        ac \in FieldValues("affiliateCommission"), sc \in FieldValues("seatCpa"),
        od \in FieldValues("operationDays"), ms \in FieldValues("months"),
        f \in BOOLEAN :
       inputs = [DefaultInputs EXCEPT
                   !.adCost = a, !.productPrice = p, !.roas = r,
                   !.profitMargin = pm, !.affiliateCommission = ac,
                   !.seatCpa = sc, !.operationDays = od, !.months = ms,
                   !.firstMonthFree = f]
  /\ results = InitialResults
  /\ compoundData = <<>>
  /\ effectPending = TRUE
  /\ pc = "idle"
  /\ queuedResults = InitialResults
  /\ monthlyProfit = Zero
  /\ data = <<>>
  /\ cumulativeAdCost = Zero
  /\ cumulativeRevenue = Zero
  /\ cumulativeProfit = Zero
  /\ currentAdCost = Zero
  /\ month = 0
  /\ numEdits = 0

SpecInputs == InitInputs /\ [][Effect]_vars

----------------------------------------------------------------------------
(* calculateCompoundEffect as a function of its argument *)

\* Values for the monthlyProfit argument besides the one calculate passes.
ProfitArguments == {calculate(inputs).profit, Zero, R(-1), R(720000)}

\* The effect, with calculateCompoundEffect called on any of those arguments.
CalculateWith(arg) ==
  /\ pc = "idle"
  /\ effectPending
  /\ queuedResults' = calculate(inputs)
  /\ monthlyProfit' = arg
  /\ data' = <<>>
  /\ cumulativeAdCost' = Zero
  /\ cumulativeRevenue' = Zero
  /\ cumulativeProfit' = Zero
  /\ currentAdCost' = inputs.adCost
  /\ month' = 0
  /\ pc' = "loop"
  /\ effectPending' = FALSE
  /\ UNCHANGED <<inputs, results, compoundData, numEdits>>

EffectWithArgument ==
  \/ \E arg \in ProfitArguments : CalculateWith(arg)
  \/ LoopSentinel
  \/ LoopMonth
  \/ LoopExit

\* The two calculations applied to every input snapshot, the projection being
\* called with every argument of ProfitArguments.
SpecArguments == InitInputs /\ [][EffectWithArgument]_vars

----------------------------------------------------------------------------
(* Properties *)

\* The rows of the projection of the current inputs: those built so far while
\* the loop runs, and compoundData once the effect of the latest edit has run.
Settled == pc = "idle" /\ ~effectPending

Rows == IF pc = "loop" THEN data ELSE IF Settled THEN compoundData ELSE <<>>

Row(m) == Rows[m + 1]

LastMonth == Len(Rows) - 1

\* C1: reinvestment law.  For every month m >= 1 followed by another row, the
\* next row's adCost is row m's pre-ad-cost profit when that profit is > 0,
\* and the baseline inputs.adCost otherwise.
C1_Reinvestment ==
  \A m \in 1..(LastMonth - 1) :
    Row(m + 1).adCost =
      IF Gt(Row(m).profit, Zero) THEN Row(m).profit ELSE inputs.adCost

\* A finished projection in which one month reinvests a positive profit and
\* another, with a negative profit, falls back to the baseline.
C1_Witness ==
  /\ Settled
  /\ inputs.adCost # Zero
  /\ \E m \in 1..(LastMonth - 1) : Gt(Row(m).profit, Zero)
  /\ \E m \in 1..(LastMonth - 1) : Gt(Zero, Row(m).profit)

\* C2: waiver law.  With firstMonthFree, row 1 has cumulativeAdCost 0 and a
\* cumulativeProfit equal to its own pre-ad-cost profit.
C2_Waiver ==
  (inputs.firstMonthFree /\ LastMonth >= 1) =>
    /\ Row(1).cumulativeAdCost = Zero
    /\ Row(1).cumulativeProfit = Row(1).profit

\* A finished projection with the waiver on and a month-1 spend that is not 0.
C2_Witness ==
  /\ Settled
  /\ inputs.firstMonthFree
  /\ LastMonth >= 1
  /\ Row(1).adCost # Zero
  /\ Row(1).profit # Zero

\* C3: the waiver applies at month 1 only.  From month 2 on every row accrues
\* its ad cost and deducts it from the cumulative net profit.
C3_WaiverOnlyMonthOne ==
  \A m \in 2..LastMonth :
    /\ Row(m).cumulativeAdCost = Add(Row(m - 1).cumulativeAdCost, Row(m).adCost)
    /\ Row(m).cumulativeProfit =
         Sub(Add(Row(m - 1).cumulativeProfit, Row(m).profit), Row(m).adCost)

\* A finished projection with the waiver on whose spend is back at the
\* baseline in a month after the first.
C3_Witness ==
  /\ Settled
  /\ inputs.firstMonthFree
  /\ inputs.adCost # Zero
  /\ \E m \in 2..LastMonth : Row(m).adCost = inputs.adCost

\* C4: row-count law.  For 0 <= months (within the months the model follows)
\* the finished projection has months + 1 rows numbered 0, 1, ..., months;
\* while the loop runs it has built rows 0..month-1 and never a row beyond
\* inputs.months, so the counter reaches the end of the loop.
C4_RowCount ==
  /\ (Settled /\ Le(Zero, inputs.months) /\ Le(inputs.months, R(MaxMonths))) =>
       R(Len(compoundData)) = Add(inputs.months, R(1))
  /\ \A i \in 1..Len(Rows) : Rows[i].month = i - 1
  /\ pc = "loop" =>
       /\ Len(data) = month
       /\ month >= 1 => Le(R(month - 1), inputs.months)

\* A finished projection for a horizon of 2 months, with its 3 rows.
C4_Witness ==
  /\ Settled
  /\ inputs.months = R(2)
  /\ Len(compoundData) = 3

\* C5: sentinel law.  Row 0 has adCost = inputs.adCost and every flow and
\* cumulative field 0, and month 1 starts from currentAdCost = inputs.adCost
\* with all cumulative values 0.
C5_Sentinel ==
  /\ Len(Rows) >= 1 =>
       /\ Row(0).adCost = inputs.adCost
       /\ Row(0).revenue = Zero
       /\ Row(0).profit = Zero
       /\ Row(0).cumulativeAdCost = Zero
       /\ Row(0).cumulativeRevenue = Zero
       /\ Row(0).cumulativeProfit = Zero
  /\ (pc = "loop" /\ month = 1) =>
       /\ currentAdCost = inputs.adCost
       /\ cumulativeAdCost = Zero
       /\ cumulativeRevenue = Zero
       /\ cumulativeProfit = Zero

\* The sentinel row has just been produced, for a spend that is not 0.
C5_Witness ==
  /\ pc = "loop"
  /\ month = 1
  /\ Len(data) = 1
  /\ inputs.adCost # Zero

\* The single-period result of the current inputs: the queued one while the
\* effect runs, the stored one once it has run.
Computed == pc = "loop" \/ Settled

Res == IF pc = "loop" THEN queuedResults ELSE results

\* C6: the single-period calculation is total and saturating.  Every result
\* is a finite number, and a non-positive denominator gives 0.
C6_Saturating ==
  /\ \A f \in ResultFields : IsFinite(results[f]) /\ IsFinite(queuedResults[f])
  /\ Computed =>
       /\ Le(inputs.productPrice, Zero) => Res.numberOfSales = Zero
       /\ Le(Res.numberOfSales, Zero) => Res.cpa = Zero
       /\ Le(inputs.adCost, Zero) => Res.roasActual = Zero
       /\ Le(inputs.seatCpa, Zero) => Res.seatCount = Zero
       /\ Le(inputs.operationDays, Zero) => Res.dailyCost = Zero

\* A result computed for a product price of 0 and a revenue that is not 0.
C6_Witness ==
  /\ Settled
  /\ inputs.productPrice = Zero
  /\ results.revenue # Zero
  /\ results.numberOfSales = Zero
  /\ results.cpa = Zero

\* C7: with adCost >= 0 no row has a negative adCost, and the spend of the
\* month being processed is never negative either.
C7_AdCostNonNegative ==
  Le(Zero, inputs.adCost) =>
    /\ \A i \in 1..Len(Rows) : Le(Zero, Rows[i].adCost)
    /\ pc = "loop" => Le(Zero, currentAdCost)

\* A finished projection with a non-negative baseline in which a month with a
\* negative profit is followed by another month.
C7_Witness ==
  /\ Settled
  /\ Gt(inputs.adCost, Zero)
  /\ \E m \in 1..(LastMonth - 1) : Gt(Zero, Row(m).profit)

\* C8: once the effect of the latest edit has run, results and compoundData
\* are the single-period result and the projection of the current inputs
\* alone, whatever was edited and computed before.
C8_RecomputedFromInputs ==
  Settled =>
    /\ results = calculate(inputs)
    /\ compoundData = calculateCompoundEffect(inputs)

\* Two edits and their recomputations have run, the second over a projection
\* that was not empty, and the inputs are no longer the initial ones.
C8_Witness ==
  /\ Settled
  /\ numEdits >= 2
  /\ inputs # DefaultInputs
  /\ Len(compoundData) >= 2

\* The default scenario of the projection.
DefaultScenario ==
  /\ inputs.adCost = R(500000)
  /\ inputs.roas = R(300)
  /\ inputs.profitMargin = R(60)
  /\ inputs.affiliateCommission = R(20)
  /\ inputs.months = R(12)
  /\ inputs.firstMonthFree

\* C9: in the default scenario row 1 has adCost 500000, profit 720000,
\* cumulativeAdCost 0 and cumulativeProfit 720000, and row 2 has adCost
\* 720000 and revenue 2160000.
C9_DefaultScenario ==
  DefaultScenario =>
    /\ LastMonth >= 1 =>
         /\ Row(1).adCost = R(500000)
         /\ Row(1).profit = R(720000)
         /\ Row(1).cumulativeAdCost = Zero
         /\ Row(1).cumulativeProfit = R(720000)
    /\ LastMonth >= 2 =>
         /\ Row(2).adCost = R(720000)
         /\ Row(2).revenue = R(2160000)
    /\ Settled => LastMonth >= 2

\* The finished projection of the default scenario.
C9_Witness ==
  /\ DefaultScenario
  /\ Settled
  /\ LastMonth >= 2

RECURSIVE SumProfit(_)
SumProfit(m) == IF m <= 0 THEN Zero ELSE Add(SumProfit(m - 1), Row(m).profit)

RECURSIVE SumRevenue(_)
SumRevenue(m) == IF m <= 0 THEN Zero ELSE Add(SumRevenue(m - 1), Row(m).revenue)

====
